---- MODULE Spec2Model ----
(***************************************************************************)
(* Model of the RenderDoc analysis scripts.                                *)
(*                                                                         *)
(*  Part I   scripts/unified/analyze_all.py: AnalysisScheduler.run and the *)
(*           timer thread started by start_timeout.                        *)
(*  Part II  scripts/pc/analyze_pass_deps.py: analyze_pass_deps.           *)
(*  Part III scripts/android/analyze_pass_deps_android.py:                 *)
(*           analyze_pass_deps_remote.                                     *)
(***************************************************************************)
EXTENDS Integers, Sequences, FiniteSets, TLC

(***************************************************************************)
(* Bounds of the model.                                                    *)
(***************************************************************************)
\* Largest number of actions in the captured frame's action tree.
MaxNodes == 2
\* Largest number of calls, into analyzer modules or into the replay API
\* during the traversal, that raise in one run.
MaxFaults == 1

(***************************************************************************)
(* Part I.  The unified scheduler.                                         *)
(***************************************************************************)

\* analyzers/__init__.py: the registry, in execution order.
ALL_ANALYZERS ==
    << [id |-> "basic_stats",     needs_iteration |-> FALSE],
       [id |-> "memory",          needs_iteration |-> FALSE],
       [id |-> "vertex_attrs",    needs_iteration |-> TRUE],
       [id |-> "shader_bindings", needs_iteration |-> TRUE],
       [id |-> "overdraw",        needs_iteration |-> TRUE] >>

\* Modules are named by their position in ALL_ANALYZERS.
Mods == 1..Len(ALL_ANALYZERS)

ModId(m) == ALL_ANALYZERS[m].id

\* The module IDs a caller may put in the list: the known ones and one that
\* names no module.
UnknownId == "no_such_module"

KnownIds == {ModId(m) : m \in Mods}

\* The values run() may receive as enabled_modules: None (given = FALSE) or
\* a list, of which only membership and emptiness are ever used. The lists
\* are those of known IDs, and those of the unknown ID alone or with one
\* known ID.
ModuleLists ==
    {[given |-> FALSE, ids |-> {}]} \cup
    {[given |-> TRUE, ids |-> s] : s \in SUBSET KnownIds} \cup
    {[given |-> TRUE, ids |-> {UnknownId}]} \cup
    {[given |-> TRUE, ids |-> {UnknownId, k}] : k \in KnownIds}

\* Python truthiness of enabled_modules: None and the empty list are false.
Truthy(enabled) == enabled.given /\ enabled.ids # {}

\* The mutant of Selected: the filter dropped.
Selected_NoFilter(enabled, m) == TRUE

\* create_analyzers, line 158: the module is kept unless
\* `enabled_modules and mod_id not in enabled_modules`.
Selected(enabled, m) == ~(Truthy(enabled) /\ ModId(m) \notin enabled.ids)

\* The frames: pre-order sequences of depths. Node n is the n-th action in
\* event order, depth[n] its nesting depth.
Trees ==
    UNION {{d \in [1..k -> 0..(k - 1)] :
               /\ k > 0 => d[1] = 0
               /\ \A n \in 2..k : d[n] <= d[n - 1] + 1} : k \in 0..MaxNodes}

\* action.children of node n (0: the roots, controller.GetRootActions()).
Children(d, n) ==
    LET dn == IF n = 0 THEN -1 ELSE d[n]
        isChild(m) == /\ m > n
                      /\ d[m] = dn + 1
                      /\ \A x \in (n + 1)..(m - 1) : d[x] > dn
        kids == {m \in DOMAIN d : isChild(m)}
        RECURSIVE asc(_)
        asc(s) == IF s = {} THEN <<>>
                  ELSE LET lo == CHOOSE x \in s : \A y \in s : x <= y
                       IN <<lo>> \o asc(s \ {lo})
    IN asc(kids)

VARIABLES
    pc,              \* where run() stands
    enabled_modules, \* run()'s argument
    tree,            \* the frame's action tree
    timer,           \* timeout_timer: "idle", "armed", "fired", "cancelled"
    timed_out,       \* self.timed_out
    cap,             \* self.cap is set
    controller,      \* self.controller: 0 is None, else the handle
    analyzers,       \* create_analyzers' list: modules constructed, in order
    idx,             \* the index of the loop run() stands in
    errors,          \* self.errors: module -> kind of message ("none": absent)
    results,         \* self.results: module -> status ("none": absent)
    stack,           \* process_action's recursion: <<[node, child]>>
    curEvent,        \* the event the replay controller stands at
    pipe,            \* process_action's local `pipe`: the event it was read at
    ret,             \* run()'s return value: "pending", "None", "report"
    faults,          \* calls into modules that raised so far
    openFileCalls,   \* cap.OpenFile calls
    openCaptureCalls,\* cap.OpenCapture calls
    ctrlShutdowns,   \* controller.Shutdown calls
    capShutdowns,    \* cap.Shutdown calls
    calls,           \* every call into an analyzer module, in order
    visits,          \* node -> the tree walks that visited it
    begun,           \* nodes process_action took up (passed its entry check)
    replayed,        \* nodes SetFrameEvent was called for
    replaySeq,       \* nodes whose replay succeeded, in order
    begunAtTimeout,  \* `begun` when on_timeout ran
    iterRan,         \* run() entered run_iteration_analyzers
    pd,              \* Part II: the locals of analyze_pass_deps
    ad               \* Part III: the locals of analyze_pass_deps_remote

vars == << pc, enabled_modules, tree, timer, timed_out, cap, controller,
           analyzers, idx, errors, results, stack, curEvent, pipe, ret,
           faults, openFileCalls, openCaptureCalls, ctrlShutdowns,
           capShutdowns, calls, visits, begun, replayed, replaySeq,
           begunAtTimeout, iterRan, pd, ad >>

\* The variables of Part I.
schedVars == << pc, enabled_modules, tree, timer, timed_out, cap, controller,
                analyzers, idx, errors, results, stack, curEvent, pipe, ret,
                faults, openFileCalls, openCaptureCalls, ctrlShutdowns,
                capShutdowns, calls, visits, begun, replayed, replaySeq,
                begunAtTimeout, iterRan >>

\* A script that is not running.
Idle == [pc |-> "idle"]

Nodes == DOMAIN tree

\* The mutant of IterAnalyzers: the same analyzers, last first.
IterAnalyzers_Reversed(as) ==
    LET it == SelectSeq(as, LAMBDA m : ALL_ANALYZERS[m].needs_iteration)
    IN [i \in 1..Len(it) |-> it[Len(it) + 1 - i]]

\* run_iteration_analyzers, line 208: the analyzers that need the traversal.
IterAnalyzers(as) == SelectSeq(as, LAMBDA m : ALL_ANALYZERS[m].needs_iteration)

Call(m, op, node, ok) ==
    [mod |-> m, op |-> op, node |-> node, ok |-> ok,
     ctrl |-> controller, pipe |-> pipe, cur |-> curEvent]

\* Whether a call into a module may raise here: any call may, the model
\* bounds how many do in one run.
Outcomes == IF faults < MaxFaults THEN {TRUE, FALSE} ELSE {TRUE}

Bump(ok) == IF ok THEN faults ELSE faults + 1

\* The scheduler before run(): AnalysisScheduler.__init__, lines 45-57.
SchedInit(lists, trees) ==
    /\ pc = "start"
    /\ enabled_modules \in lists
    /\ tree \in trees
    /\ timer = "idle"
    /\ timed_out = FALSE
    /\ cap = FALSE
    /\ controller = 0
    /\ analyzers = <<>>
    /\ idx = 0
    /\ errors = [m \in Mods |-> "none"]
    /\ results = [m \in Mods |-> "none"]
    /\ stack = <<>>
    /\ curEvent = 0
    /\ pipe = 0
    /\ ret = "pending"
    /\ faults = 0
    /\ openFileCalls = 0
    /\ openCaptureCalls = 0
    /\ ctrlShutdowns = 0
    /\ capShutdowns = 0
    /\ calls = <<>>
    /\ visits = [n \in Nodes |-> {}]
    /\ begun = {}
    /\ replayed = {}
    /\ replaySeq = <<>>
    /\ begunAtTimeout = {}
    /\ iterRan = FALSE

Init == SchedInit(ModuleLists, Trees) /\ pd = Idle /\ ad = Idle

\* Groups of variables, for UNCHANGED.
inputVars == << enabled_modules, tree >>
scriptVars == << pd, ad >>
timerVars == << timer, timed_out, begunAtTimeout >>
ioVars == << cap, controller, openFileCalls, openCaptureCalls,
             ctrlShutdowns, capShutdowns >>
walkVars == << stack, curEvent, pipe, begun, replayed, replaySeq >>
moduleVars == << analyzers, errors, results, faults, calls >>

\* run(), line 353: start_timeout arms the timer thread.
StartTimeout ==
    /\ pc = "start"
    /\ timer' = "armed"
    /\ pc' = "init"
    /\ UNCHANGED << inputVars, scriptVars, timed_out, begunAtTimeout, ioVars,
                    walkVars, moduleVars, idx, ret, visits, iterRan >>

\* The timer thread: on_timeout, at any moment until the timer is cancelled.
OnTimeout ==
    /\ timer = "armed"
    /\ timer' = "fired"
    /\ timed_out' = TRUE
    /\ begunAtTimeout' = begun
    /\ UNCHANGED << pc, inputVars, scriptVars, ioVars, walkVars, moduleVars,
                    idx, ret, visits, iterRan >>

\* run(), lines 357-358: init_renderdoc imports the replay library or fails.
InitRenderdoc ==
    /\ pc = "init"
    /\ \E ok \in BOOLEAN :
          IF ok THEN pc' = "open" /\ ret' = ret
                ELSE pc' = "finally" /\ ret' = "None"
    /\ UNCHANGED << inputVars, scriptVars, timerVars, ioVars, walkVars,
                    moduleVars, idx, visits, iterRan >>

\* The mutant of OpenCaptureResult: a second attempt after a failed one.
OpenCaptureResult_Retry(n, ok) ==
    [calls |-> IF ok THEN n + 1 ELSE n + 2, handle |-> IF ok THEN n + 1 ELSE 0]

\* open_capture, lines 121-134: one OpenCapture call, whose controller (named
\* by the call that made it) is kept when the call succeeds.
OpenCaptureResult(n, ok) ==
    [calls |-> n + 1, handle |-> IF ok THEN n + 1 ELSE 0]

\* run(), lines 360-361: open_capture. OpenFile may fail, and then
\* OpenCapture; a failed OpenCapture shuts the capture file down.
OpenCapture ==
    /\ pc = "open"
    /\ cap' = TRUE
    /\ openFileCalls' = openFileCalls + 1
    /\ \E outcome \in {"file_fails", "capture_fails", "ok"} :
          CASE outcome = "file_fails" ->
                 /\ pc' = "finally" /\ ret' = "None"
                 /\ UNCHANGED << openCaptureCalls, controller, capShutdowns,
                                 idx >>
            [] outcome = "capture_fails" ->
                 /\ openCaptureCalls' =
                        OpenCaptureResult(openCaptureCalls, FALSE).calls
                 /\ controller' =
                        OpenCaptureResult(openCaptureCalls, FALSE).handle
                 /\ capShutdowns' = capShutdowns + 1
                 /\ pc' = "finally" /\ ret' = "None"
                 /\ UNCHANGED idx
            [] outcome = "ok" ->
                 /\ openCaptureCalls' =
                        OpenCaptureResult(openCaptureCalls, TRUE).calls
                 /\ controller' =
                        OpenCaptureResult(openCaptureCalls, TRUE).handle
                 /\ pc' = "create" /\ idx' = 1
                 /\ UNCHANGED << ret, capShutdowns >>
    /\ UNCHANGED << inputVars, scriptVars, timerVars, ctrlShutdowns, walkVars,
                    moduleVars, visits, iterRan >>

\* create_analyzers, line 162: the controller an analyzer is constructed
\* with, AnalyzerClass(self.rd, self.controller).
AnalyzerController(ctrl, m) == ctrl

\* create_analyzers, lines 157-166: one turn of the loop over ALL_ANALYZERS.
CreateAnalyzer ==
    /\ pc = "create"
    /\ idx <= Len(ALL_ANALYZERS)
    /\ idx' = idx + 1
    /\ IF ~Selected(enabled_modules, idx)
       THEN UNCHANGED moduleVars
       ELSE \E ok \in Outcomes :
               /\ calls' = Append(calls,
                      [Call(idx, "init", 0, ok) EXCEPT
                          !.ctrl = AnalyzerController(controller, idx)])
               /\ faults' = Bump(ok)
               /\ analyzers' = IF ok THEN Append(analyzers, idx) ELSE analyzers
               /\ errors' = IF ok THEN errors
                            ELSE [errors EXCEPT ![idx] = "init"]
               /\ UNCHANGED results
    /\ UNCHANGED << pc, inputVars, scriptVars, timerVars, ioVars, walkVars,
                    ret, visits, iterRan >>

\* run(), lines 364-368: create_analyzers returned; no analyzer, no run.
CreateDone ==
    /\ pc = "create"
    /\ idx > Len(ALL_ANALYZERS)
    /\ IF analyzers = <<>>
       THEN pc' = "finally" /\ ret' = "None" /\ idx' = idx
       ELSE pc' = "static" /\ ret' = ret /\ idx' = 1
    /\ UNCHANGED << inputVars, scriptVars, timerVars, ioVars, walkVars,
                    moduleVars, visits, iterRan >>

\* BasicStatsAnalyzer.analyze: count_actions walks the whole tree itself.
\* Its one call into the replay API is GetRootActions, before the walk: an
\* analyze() that raises has visited nothing.
OwnWalk(m, ok, v) ==
    IF ModId(m) = "basic_stats" /\ ok
    THEN [n \in DOMAIN v |-> v[n] \cup {"count_actions"}]
    ELSE v

\* run_static_analyzers, lines 176-200: one turn of the loop over analyzers.
StaticStep ==
    /\ pc = "static"
    /\ idx <= Len(analyzers)
    /\ idx' = idx + 1
    /\ LET m == analyzers[idx] IN
       IF ALL_ANALYZERS[m].needs_iteration
       THEN UNCHANGED << moduleVars, visits >>
       ELSE IF timed_out
       THEN /\ errors' = [errors EXCEPT ![m] = "timeout_skip"]
            /\ UNCHANGED << analyzers, results, faults, calls, visits >>
       ELSE \E ok \in Outcomes :
               /\ calls' = Append(calls, Call(m, "analyze", 0, ok))
               /\ faults' = Bump(ok)
               /\ visits' = OwnWalk(m, ok, visits)
               /\ results' = [results EXCEPT
                                 ![m] = IF ok THEN "success" ELSE "error"]
               /\ errors' = IF ok THEN errors
                            ELSE [errors EXCEPT ![m] = "exception"]
               /\ UNCHANGED analyzers
    /\ UNCHANGED << pc, inputVars, scriptVars, timerVars, ioVars, walkVars,
                    ret, iterRan >>

\* run(), lines 371-375, and run_iteration_analyzers, lines 208-211: after
\* the static phase the traversal starts unless the timer fired or no
\* analyzer needs it.
StaticDone ==
    /\ pc = "static"
    /\ idx > Len(analyzers)
    /\ idx' = 1
    /\ IF timed_out
       THEN pc' = "report" /\ UNCHANGED << iterRan, stack >>
       ELSE /\ iterRan' = TRUE
            /\ IF IterAnalyzers(analyzers) = <<>>
               THEN pc' = "report" /\ UNCHANGED stack
               ELSE pc' = "children" /\ stack' = << [node |-> 0, child |-> 1] >>
    /\ UNCHANGED << inputVars, scriptVars, timerVars, ioVars, curEvent, pipe,
                    begun, replayed, replaySeq, moduleVars, ret, visits >>

Top == stack[Len(stack)]

\* A return from process_action (or the end of the loop over the roots):
\* the caller's loop goes on, and after the roots comes the finalize loop.
Return(st) == IF Len(st) = 1 THEN <<>> ELSE SubSeq(st, 1, Len(st) - 1)

AfterReturn(st) == IF Len(st) = 1 THEN "finalize" ELSE "children"

\* The mutant of StopTraversal: the flag is never looked at.
StopTraversal_Never(flag) == FALSE

\* process_action, lines 223-224, 263-264 and 269-270: the traversal's
\* check of self.timed_out.
StopTraversal(flag) == flag

\* Lines 262-265 (the children of an action) and 268-271 (the roots): one
\* turn of the loop, which checks timed_out and then calls process_action.
ChildLoop ==
    /\ pc = "children"
    /\ LET f == Top
           kids == Children(tree, f.node)
       IN IF f.child > Len(kids) \/ StopTraversal(timed_out)
          THEN /\ stack' = Return(stack)
               /\ pc' = AfterReturn(stack)
          ELSE /\ stack' = Append(
                     [stack EXCEPT ![Len(stack)].child = f.child + 1],
                     [node |-> kids[f.child], child |-> 1])
               /\ pc' = "enter"
    /\ idx' = 1
    /\ UNCHANGED << inputVars, scriptVars, timerVars, ioVars, curEvent, pipe,
                    begun, replayed, replaySeq, moduleVars, ret, visits,
                    iterRan >>

\* process_action, lines 223-231: the entry check, then the action's flags.
Enter ==
    /\ pc = "enter"
    /\ IF StopTraversal(timed_out)
       THEN /\ stack' = Return(stack)
            /\ pc' = AfterReturn(stack)
            /\ UNCHANGED << begun, visits >>
       ELSE /\ begun' = begun \cup {Top.node}
            /\ visits' = [visits EXCEPT
                             ![Top.node] = @ \cup {"process_action"}]
            /\ \E isDrawOrDispatch \in BOOLEAN :
                  pc' = IF isDrawOrDispatch THEN "replay" ELSE "children"
            /\ UNCHANGED stack
    /\ UNCHANGED << inputVars, scriptVars, timerVars, ioVars, curEvent, pipe,
                    replayed, replaySeq, moduleVars, idx, ret, iterRan >>

\* The mutant of ReplayTo: the pipeline state is read before the replay.
ReplayTo_StaleState(cur, eid) == [event |-> eid, pipe |-> cur]

\* Lines 244-245: controller.SetFrameEvent(eid) and then
\* controller.GetPipelineState(), which reads the state of the event the
\* controller stands at.
ReplayTo(cur, eid) == [event |-> eid, pipe |-> eid]

\* process_action, lines 243-247: the replay to the action. If either call
\* raises, process_action returns: the action and its children are skipped.
Replay ==
    /\ pc = "replay"
    /\ replayed' = replayed \cup {Top.node}
    /\ \E ok \in Outcomes :
          /\ faults' = Bump(ok)
          /\ IF ok
             THEN /\ curEvent' = ReplayTo(curEvent, Top.node).event
                  /\ pipe' = ReplayTo(curEvent, Top.node).pipe
                  /\ replaySeq' = Append(replaySeq, Top.node)
                  /\ pc' = "call"
                  /\ UNCHANGED stack
             ELSE /\ curEvent' \in {curEvent, Top.node}
                  /\ stack' = Return(stack)
                  /\ pc' = AfterReturn(stack)
                  /\ UNCHANGED << pipe, replaySeq >>
    /\ idx' = 1
    /\ UNCHANGED << inputVars, scriptVars, timerVars, ioVars, begun,
                    analyzers, errors, results, calls, ret, visits, iterRan >>

\* The mutant of SkipFailed: any recorded error stops the module's calls.
SkipFailed_AnyError(errs, m) == \E x \in DOMAIN errs : errs[x] # "none"

\* process_action, lines 251-252: `if mod_id in self.errors: continue`.
SkipFailed(errs, m) == errs[m] # "none"

\* process_action, lines 250-259: one turn of the loop over iter_analyzers.
CallAnalyzer ==
    /\ pc = "call"
    /\ LET iter == IterAnalyzers(analyzers)
           m == iter[idx]
       IN /\ IF SkipFailed(errors, m)
             THEN UNCHANGED moduleVars
             ELSE \E ok \in Outcomes :
                     /\ calls' = Append(calls,
                            Call(m, "analyze_action", Top.node, ok))
                     /\ faults' = Bump(ok)
                     /\ errors' = IF ok THEN errors
                                  ELSE [errors EXCEPT ![m] = "analyze_action"]
                     /\ UNCHANGED << analyzers, results >>
          /\ idx' = idx + 1
          /\ pc' = IF idx = Len(iter) THEN "children" ELSE "call"
    /\ UNCHANGED << inputVars, scriptVars, timerVars, ioVars, walkVars, ret,
                    visits, iterRan >>

\* The mutant of FinalizeOps: analyze() before finalize().
FinalizeOps_Swapped == << "analyze", "finalize" >>

\* Lines 285-286: analyzer.finalize() and then analyzer.analyze().
FinalizeOps == << "finalize", "analyze" >>

\* The calls of one turn of the finalize loop, by how it ends: both return,
\* the first raises, or the second raises.
FinalizeCalls(m, outcome) ==
    CASE outcome = "ok" ->
           << Call(m, FinalizeOps[1], 0, TRUE),
              Call(m, FinalizeOps[2], 0, TRUE) >>
      [] outcome = "first_raises" ->
           << Call(m, FinalizeOps[1], 0, FALSE) >>
      [] outcome = "second_raises" ->
           << Call(m, FinalizeOps[1], 0, TRUE),
              Call(m, FinalizeOps[2], 0, FALSE) >>

\* run_iteration_analyzers, lines 276-297: one turn of the loop that ends
\* the iteration modules.
Finalize ==
    /\ pc = "finalize"
    /\ LET iter == IterAnalyzers(analyzers)
           m == iter[idx]
       IN /\ IF errors[m] = "analyze_action"
             THEN /\ results' = [results EXCEPT ![m] = "partial"]
                  /\ UNCHANGED << analyzers, errors, faults, calls >>
             ELSE \E outcome \in
                       {"ok"} \cup
                       (IF faults < MaxFaults
                        THEN {"first_raises", "second_raises"} ELSE {}) :
                     /\ calls' = calls \o FinalizeCalls(m, outcome)
                     /\ faults' = Bump(outcome = "ok")
                     /\ results' = [results EXCEPT
                           ![m] = IF outcome = "ok" THEN "success" ELSE "error"]
                     /\ errors' = IF outcome = "ok" THEN errors
                                  ELSE [errors EXCEPT ![m] = "exception"]
                     /\ UNCHANGED analyzers
          /\ idx' = idx + 1
          /\ pc' = IF idx = Len(iter) THEN "report" ELSE "finalize"
    /\ UNCHANGED << inputVars, scriptVars, timerVars, ioVars, walkVars, ret,
                    visits, iterRan >>

\* generate_report, lines 318-326: format_report() of every module whose
\* result is a success, in the order the results were stored. A
\* format_report() that raises only puts an error line in the report.
ReportCalls(res) ==
    LET RECURSIVE from(_)
        from(m) == IF m > Len(ALL_ANALYZERS) THEN <<>>
                   ELSE (IF res[m] = "success"
                         THEN << Call(m, "format_report", 0, TRUE) >>
                         ELSE <<>>) \o from(m + 1)
    IN from(1)

\* run(), lines 382-384: generate_report, and the report is returned.
Report ==
    /\ pc = "report"
    /\ calls' = calls \o ReportCalls(results)
    /\ ret' = "report"
    /\ pc' = "finally"
    /\ UNCHANGED << inputVars, scriptVars, timerVars, ioVars, walkVars,
                    analyzers, errors, results, faults, idx, visits,
                    iterRan >>

\* The mutant of CancelTimeout: the timer is left running.
CancelTimeout_Never(t) == t

\* cancel_timeout, lines 71-74: a timer that has not fired yet never will.
CancelTimeout(t) == IF t = "armed" THEN "cancelled" ELSE t

\* run(), lines 386-388: cancel_timeout and close_capture.
Finally ==
    /\ pc = "finally"
    /\ timer' = CancelTimeout(timer)
    /\ ctrlShutdowns' = IF controller # 0 THEN ctrlShutdowns + 1
                        ELSE ctrlShutdowns
    /\ capShutdowns' = IF cap THEN capShutdowns + 1 ELSE capShutdowns
    /\ pc' = "done"
    /\ UNCHANGED << inputVars, scriptVars, timed_out, begunAtTimeout, cap,
                    controller, openFileCalls, openCaptureCalls, walkVars,
                    moduleVars, idx, ret, visits, iterRan >>

Next ==
    \/ StartTimeout
    \/ OnTimeout
    \/ InitRenderdoc
    \/ OpenCapture
    \/ CreateAnalyzer
    \/ CreateDone
    \/ StaticStep
    \/ StaticDone
    \/ ChildLoop
    \/ Enter
    \/ Replay
    \/ CallAnalyzer
    \/ Finalize
    \/ Report
    \/ Finally

Spec == Init /\ [][Next]_vars

(***************************************************************************)
(* Claims about the unified scheduler.                                     *)
(***************************************************************************)

CallsOf(m) == SelectSeq(calls, LAMBDA e : e.mod = m)

OpCalls(m, op) == SelectSeq(calls, LAMBDA e : e.mod = m /\ e.op = op)

NodesOf(cs) == [i \in 1..Len(cs) |-> cs[i].node]

IsPrefix(a, b) == Len(a) <= Len(b) /\ \A i \in 1..Len(a) : a[i] = b[i]

Constructed(m) == \E i \in 1..Len(analyzers) : analyzers[i] = m

PosIn(seq, m) == CHOOSE i \in 1..Len(seq) : seq[i] = m

IsIter(m) == ALL_ANALYZERS[m].needs_iteration

\* The actions the traversal has offered to iteration module m so far: those
\* replayed, less the current one while m's turn in the loop is still to come.
Offered(m) ==
    IF pc = "call" /\ PosIn(IterAnalyzers(analyzers), m) >= idx
    THEN SubSeq(replaySeq, 1, Len(replaySeq) - 1)
    ELSE replaySeq

\* create_analyzers has dealt with module m.
PastCreate(m) == controller # 0 /\ (pc = "create" => idx > m)

\* run_static_analyzers has dealt with the constructed static module m.
PastStatic(m) ==
    /\ pc # "create"
    /\ pc = "static" => PosIn(analyzers, m) < idx

\* The finalize loop has dealt with the constructed iteration module m, or
\* the run ended without it.
PastFinalize(m) ==
    \/ pc \in {"report", "finally", "done"}
    \/ pc = "finalize" /\ PosIn(IterAnalyzers(analyzers), m) < idx

NoRaise(cs) == \A i \in 1..Len(cs) : cs[i].ok

\* C1. A module's failure is isolated. The calls a module receives and the
\* status it ends with are a function of the run's environment (the list of
\* modules, the timer, the actions replayed) and of its own calls' outcomes
\* alone; no other module's failure enters:
\*  - every selected module is constructed once;
\*  - a constructed static module gets analyze() once, and success or error
\*    by its outcome, unless the timer made the scheduler skip it;
\*  - a constructed iteration module gets analyze_action for every action
\*    replayed, in order, until a call of its own raises;
\*  - it ends partial if such a call raised, and otherwise gets finalize()
\*    and analyze() and ends success or error by their outcome, unless the
\*    timer kept the traversal phase from running.
C1_FailureIsolated ==
    \A m \in Mods :
       LET ac == OpCalls(m, "analyze_action")
           fin == OpCalls(m, "finalize")
           an == OpCalls(m, "analyze")
       IN
       /\ (PastCreate(m) /\ Selected(enabled_modules, m))
             => Len(OpCalls(m, "init")) = 1
       /\ (Constructed(m) /\ ~IsIter(m) /\ PastStatic(m)) =>
             \/ /\ Len(an) = 1
                /\ errors[m] # "timeout_skip"
                /\ results[m] = IF an[1].ok THEN "success" ELSE "error"
             \/ /\ Len(an) = 0
                /\ timed_out
                /\ errors[m] = "timeout_skip"
                /\ results[m] = "none"
       /\ (Constructed(m) /\ IsIter(m)) =>
             /\ IsPrefix(NodesOf(ac), Offered(m))
             /\ \A i \in 1..(Len(ac) - 1) : ac[i].ok
             /\ NoRaise(ac) => NodesOf(ac) = Offered(m)
       /\ (Constructed(m) /\ IsIter(m) /\ PastFinalize(m)) =>
             IF ~iterRan
             THEN results[m] = "none" /\ Len(fin) = 0 /\ Len(an) = 0
             ELSE IF ~NoRaise(ac)
             THEN results[m] = "partial" /\ Len(fin) = 0 /\ Len(an) = 0
             ELSE /\ Len(fin) = 1
                  /\ Len(an) = (IF fin[1].ok THEN 1 ELSE 0)
                  /\ results[m] = IF NoRaise(fin) /\ NoRaise(an)
                                  THEN "success" ELSE "error"

\* C1's case: the run is over, a call into one module raised, and another
\* module got every replayed action and ended successfully.
C1_Witness ==
    /\ pc = "done"
    /\ replaySeq # <<>>
    /\ \E bad, good \in Mods :
          /\ bad # good
          /\ ~NoRaise(OpCalls(bad, "analyze_action"))
          /\ IsIter(good)
          /\ NodesOf(OpCalls(good, "analyze_action")) = replaySeq
          /\ results[good] = "success"

\* C2. The action tree is traversed once: no action is visited by more than
\* one tree walk.
C2_SingleTraversal == \A n \in Nodes : Cardinality(visits[n]) <= 1

AnalysedNodes == {calls[i].node : i \in {j \in 1..Len(calls) :
                                            calls[j].op = "analyze_action"}}

\* C3. After the timer fired, no action that process_action had not taken up
\* by then is replayed or handed to an analyzer; and a run whose analysis had
\* started (the capture open, an analyzer constructed) still returns the
\* report and shuts down the controller and the capture file.
C3_GracefulTimeout ==
    /\ timed_out => (replayed \cup AnalysedNodes) \subseteq begunAtTimeout
    /\ (pc = "done" /\ timed_out /\ analyzers # <<>>) =>
          /\ ret = "report"
          /\ ctrlShutdowns >= 1
          /\ capShutdowns >= 1

\* C3's case: the timer fired in the middle of the traversal, some action was
\* never taken up, and the run ended.
C3_Witness ==
    /\ pc = "done"
    /\ timed_out
    /\ begunAtTimeout # {}
    /\ begun = begunAtTimeout
    /\ begun # Nodes
    /\ ret = "report"

ListedOnly ==
    /\ \A i \in 1..Len(calls) : ModId(calls[i].mod) \in enabled_modules.ids
    /\ \A m \in Mods :
          (results[m] # "none" \/ errors[m] # "none")
             => ModId(m) \in enabled_modules.ids

\* C4 as stated: given any list, only the listed modules are run and appear
\* in results or errors.
C4_OnlyListedAnyList == enabled_modules.given => ListedOnly

\* C4, amended. Given a non-empty list, only the listed modules are run and
\* appear in results or errors; an empty list selects every module, as None
\* does.
C4_OnlyListed ==
    /\ (enabled_modules.given /\ enabled_modules.ids # {}) => ListedOnly
    /\ (enabled_modules.ids = {} /\ controller # 0 /\ pc # "create")
          => \A m \in Mods : Len(OpCalls(m, "init")) = 1

\* C4's case: a list naming one known module and an unknown one; the run
\* ended with a report and the known module's result.
C4_Witness ==
    /\ pc = "done"
    /\ enabled_modules.given
    /\ UnknownId \in enabled_modules.ids
    /\ Cardinality(enabled_modules.ids) = 2
    /\ ret = "report"
    /\ \E m \in Mods : results[m] = "success"

\* C5. OpenFile and OpenCapture are each called at most once in a run, and
\* every analyzer is constructed with the one controller that call returned.
C5_SingleOpen ==
    /\ openFileCalls <= 1
    /\ openCaptureCalls <= 1
    /\ \A i \in 1..Len(calls) :
          calls[i].op = "init" =>
             calls[i].ctrl = controller /\ controller = openCaptureCalls

\* C5's case: all five analyzers constructed.
C5_Witness ==
    /\ Len(analyzers) = Len(ALL_ANALYZERS)
    /\ openFileCalls = 1
    /\ openCaptureCalls = 1

\* C6. On every iteration module, finalize() comes after its last
\* analyze_action(), analyze() comes after its finalize(), and each of the
\* two is called at most once.
C6_FinalizeOrder ==
    \A m \in Mods : IsIter(m) =>
       LET cs == CallsOf(m) IN
       /\ Len(OpCalls(m, "finalize")) <= 1
       /\ Len(OpCalls(m, "analyze")) <= 1
       /\ \A i, j \in 1..Len(cs) :
             (cs[i].op = "finalize" /\ cs[j].op = "analyze_action") => j < i
       /\ \A i \in 1..Len(cs) :
             cs[i].op = "analyze" =>
                \E j \in 1..(i - 1) : cs[j].op = "finalize"

\* C6's case: a module that got analyze_action, then finalize and analyze.
C6_Witness ==
    \E m \in Mods :
       /\ IsIter(m)
       /\ Len(OpCalls(m, "analyze_action")) >= 2
       /\ Len(OpCalls(m, "finalize")) = 1
       /\ Len(OpCalls(m, "analyze")) = 1

StaticAnalyze(e) == e.op = "analyze" /\ ~IsIter(e.mod)

\* C7. Modules run in the order of ALL_ANALYZERS: the static modules'
\* analyze() calls are in that order and all come before the first
\* analyze_action(); for each action the iteration modules get
\* analyze_action() in that order.
C7_RegistryOrder ==
    \A i \in 1..Len(calls) : \A j \in (i + 1)..Len(calls) :
       /\ (StaticAnalyze(calls[i]) /\ StaticAnalyze(calls[j]))
             => calls[i].mod < calls[j].mod
       /\ calls[i].op = "analyze_action" => ~StaticAnalyze(calls[j])
       /\ (/\ calls[i].op = "analyze_action"
           /\ calls[j].op = "analyze_action"
           /\ calls[i].node = calls[j].node)
             => calls[i].mod < calls[j].mod

\* C7's case: both static modules analysed, and one action handed to all
\* three iteration modules.
C7_Witness ==
    /\ Len(SelectSeq(calls, StaticAnalyze)) = 2
    /\ \E n \in Nodes :
          Len(SelectSeq(calls, LAMBDA e : e.op = "analyze_action"
                                            /\ e.node = n)) = 3

\* C8. The pipeline state handed to analyze_action(action, pipe) was read
\* right after the replay to that action's event: it is that event's state,
\* and the controller still stands at that event.
C8_PipeMatchesAction ==
    \A i \in 1..Len(calls) :
       calls[i].op = "analyze_action" =>
          calls[i].pipe = calls[i].node /\ calls[i].cur = calls[i].node

\* C8's case: an action replayed and handed to analyzers, and another whose
\* replay failed.
C8_Witness ==
    /\ Cardinality(AnalysedNodes) >= 1
    /\ replayed # AnalysedNodes

\* Where the main thread, the one that runs run(), stands. Every step of
\* run() moves it.
MainThreadAt == << pc, idx, stack >>

\* What the modules and the traversal left behind: results, errors, the
\* analyzers and the calls made into them.
ModuleState == << results, errors, analyzers, calls, faults >>

\* C12 as stated: the scheduler's state is read and written by one thread, so
\* nothing the traversal observes (timed_out, results, errors, the analyzers)
\* changes in a step that is not the main thread's own.
C12_SingleThreaded ==
    [][MainThreadAt' = MainThreadAt
          => (timed_out' = timed_out /\ ModuleState' = ModuleState)]_vars

\* C12, amended. There is a second thread, the timeout timer, alive from
\* start_timeout to cancel_timeout. It writes self.timed_out and nothing
\* else, once, from False to True, at any moment of the run; the main thread
\* never writes the flag; results, errors and the analyzers are written by
\* the main thread alone; and after run() has returned the flag stays.
C12_TimerWritesFlagOnly ==
    [][/\ MainThreadAt' = MainThreadAt
             => (~timed_out /\ timed_out' /\ ModuleState' = ModuleState)
       /\ MainThreadAt' # MainThreadAt => timed_out' = timed_out
       /\ pc = "done" => timed_out' = timed_out]_vars

\* C12's case: the timer thread set the flag while the traversal, which had
\* started with the flag clear, was in the middle of the tree.
C12_Witness ==
    /\ timed_out
    /\ iterRan
    /\ pc \in {"children", "enter", "replay", "call"}
    /\ begun # {}

(***************************************************************************)
(* Part II.  scripts/pc/analyze_pass_deps.py                               *)
(***************************************************************************)

\* Largest number of root actions in the frame.
MaxRoots == 3

\* The frame's resources: textures (controller.GetTextures()) and buffers.
TexIds == {"T1"}

BufIds == {"B1"}

PdRes == TexIds \cup BufIds

\* A root action: whether its customName makes it a pass (line 120); its one
\* child, a draw, a dispatch or another action (a copy, a clear); the
\* resources bound as outputs at that child (colour and depth targets of a
\* draw, which are textures; read-write resources of a dispatch); and the
\* resources the child reads. What a root that is no pass outputs is never
\* looked at, and is left out.
RootActions ==
    {r \in [named : BOOLEAN, kind : {"draw", "dispatch", "other"},
            out : SUBSET PdRes, reads : SUBSET PdRes] :
        /\ r.kind = "other" => r.out = {}
        /\ r.kind = "draw" => r.out \subseteq TexIds
        /\ ~r.named => (r.out = {} /\ r.kind = "other")}

Frames == UNION {[1..k -> RootActions] : k \in 0..MaxRoots}

\* Event IDs: root i is event 2i - 1, its child event 2i.
RootEventId(i) == 2 * i - 1

\* get_last_event_id, lines 125-128: the last event under root i.
GetLastEventId(i) == 2 * i

\* find_last_draw_or_dispatch, lines 130-145, on root i: the last draw or
\* dispatch under it, or none.
FindLastDrawOrDispatch(frame, i) ==
    CASE frame[i].kind = "draw" -> [found |-> TRUE, eid |-> 2 * i,
                                    is_dispatch |-> FALSE]
      [] frame[i].kind = "dispatch" -> [found |-> TRUE, eid |-> 2 * i,
                                        is_dispatch |-> TRUE]
      [] OTHER -> [found |-> FALSE, eid |-> 0, is_dispatch |-> FALSE]

\* Lines 117-121: the passes, the root actions with a name, in order.
PassesOf(frame) ==
    LET RECURSIVE from(_)
        from(i) == IF i > Len(frame) THEN <<>>
                   ELSE (IF frame[i].named THEN <<i>> ELSE <<>>) \o from(i + 1)
    IN from(1)

\* controller.GetUsage(r), cut down to what line 230 keeps: the events that
\* read r, in event order.
ReadEvents(frame, r) ==
    LET RECURSIVE from(_)
        from(i) == IF i > Len(frame) THEN <<>>
                   ELSE (IF r \in frame[i].reads THEN <<2 * i>> ELSE <<>>)
                        \o from(i + 1)
    IN from(1)

\* Lines 223-224: the resource is found among controller.GetTextures().
IsTexture(r) == r \in TexIds

\* Lines 234-240: the first pass after the producer that holds the event, as
\* a sequence of at most one pass.
ConsumerOf(frame, passes, prod_idx, ev) ==
    LET hit == {i \in 1..Len(passes) :
                   /\ i > prod_idx
                   /\ RootEventId(passes[i]) <= ev
                   /\ ev <= GetLastEventId(passes[i])}
    IN IF hit = {} THEN <<>>
       ELSE << CHOOSE i \in hit : \A j \in hit : i <= j >>

\* Lines 229-240: the consumers of a resource, one for every read after the
\* producing pass's last event that falls in a later pass.
ConsumersOf(frame, passes, prod, r) ==
    LET evs == ReadEvents(frame, r)
        RECURSIVE from(_)
        from(k) == IF k > Len(evs) THEN <<>>
                   ELSE (IF evs[k] > prod.last_eid
                         THEN ConsumerOf(frame, passes, prod.idx, evs[k])
                         ELSE <<>>) \o from(k + 1)
    IN from(1)

NoProducer == [idx |-> 0, draw_eid |-> 0, last_eid |-> 0]

PdInit(frames) ==
    \E f \in frames :
       pd = [pc |-> "collect", frame |-> f, passes |-> PassesOf(f), idx |-> 1,
             pass_outputs |-> <<>>,
             rt_producer |-> [r \in PdRes |-> NoProducer],
             todo |-> {},
             rt_consumers |-> [r \in PdRes |-> <<>>],
             ok_lines |-> {}, xx_lines |-> {}, dead |-> {}]

\* Lines 153-197: one turn of the loop that collects a pass's outputs and
\* makes the pass their producer.
PdCollect ==
    /\ pd.pc = "collect"
    /\ pd.idx <= Len(pd.passes)
    /\ LET root == pd.passes[pd.idx]
           last == FindLastDrawOrDispatch(pd.frame, root)
           outputs == IF last.found THEN pd.frame[root].out ELSE {}
           prod == [idx |-> pd.idx, draw_eid |-> last.eid,
                    last_eid |-> GetLastEventId(root)]
       IN pd' = [pd EXCEPT
                    !.idx = @ + 1,
                    !.pass_outputs = Append(@, outputs),
                    !.rt_producer = [r \in PdRes |->
                                        IF r \in outputs THEN prod ELSE @[r]],
                    !.todo = @ \cup outputs]
    /\ UNCHANGED << schedVars, ad >>

\* Line 222: the loop over the collected resources starts.
PdCollectDone ==
    /\ pd.pc = "collect"
    /\ pd.idx > Len(pd.passes)
    /\ pd' = [pd EXCEPT !.pc = "consumers"]
    /\ UNCHANGED << schedVars, ad >>

\* Lines 222-243: one turn of the loop over rt_producer: the resource's
\* consumers, if the resource is a texture.
PdConsumers ==
    /\ pd.pc = "consumers"
    /\ \E r \in pd.todo :
          pd' = [pd EXCEPT
                    !.todo = @ \ {r},
                    !.rt_consumers[r] =
                        IF IsTexture(r)
                        THEN ConsumersOf(pd.frame, pd.passes,
                                         pd.rt_producer[r], r)
                        ELSE <<>>]
    /\ UNCHANGED << schedVars, ad >>

\* Lines 250-290: the report. Each pass's outputs are listed as used ("OK")
\* or unused ("XX") by rt_consumers, and the resources without a consumer
\* make the dead rendering list.
PdReport ==
    /\ pd.pc = "consumers"
    /\ pd.todo = {}
    /\ LET lines == {<< p, r >> \in (1..Len(pd.passes)) \X PdRes :
                        r \in pd.pass_outputs[p]}
           produced == {r \in PdRes : pd.rt_producer[r] # NoProducer}
       IN pd' = [pd EXCEPT
                    !.pc = "done",
                    !.ok_lines = {l \in lines : pd.rt_consumers[l[2]] # <<>>},
                    !.xx_lines = {l \in lines : pd.rt_consumers[l[2]] = <<>>},
                    !.dead = {r \in produced : pd.rt_consumers[r] = <<>>}]
    /\ UNCHANGED << schedVars, ad >>

\* The scheduler, standing still while another script runs.
SchedIdle == SchedInit({[given |-> FALSE, ids |-> {}]}, {<<>>})

PassDepsInit == PdInit(Frames) /\ SchedIdle /\ ad = Idle

PassDepsNext == PdCollect \/ PdCollectDone \/ PdConsumers \/ PdReport

SpecPassDeps == PassDepsInit /\ [][PassDepsNext]_vars

\* A later pass reads r after the last event of pass p: some read of r falls
\* in a pass that comes after p.
ReadByLaterPass(frame, passes, p, r) ==
    \E q \in (p + 1)..Len(passes) :
       /\ r \in frame[passes[q]].reads
       /\ 2 * passes[q] > GetLastEventId(passes[p])

\* C9. Every resource output by a pass's last draw or dispatch is reported
\* as used exactly when a later pass reads it after the pass's last event,
\* and as dead rendering otherwise.
C9_UsedIffReadLater ==
    pd.pc = "done" =>
       \A p \in 1..Len(pd.passes) : \A r \in pd.frame[pd.passes[p]].out :
          IF ReadByLaterPass(pd.frame, pd.passes, p, r)
          THEN << p, r >> \in pd.ok_lines /\ r \notin pd.dead
          ELSE << p, r >> \in pd.xx_lines /\ r \in pd.dead

(***************************************************************************)
(* Part III.  scripts/android/analyze_pass_deps_android.py                 *)
(***************************************************************************)

\* Largest number of marker regions in the frame.
MaxPasses == 3

\* The custom names of the frame's markers; two markers may share one.
AdNames == {"A", "B"}

AdRes == {"R1", "R2"}

\* A marker region: a PushMarker action and, under it, one draw or none;
\* the draw's bound output and depth targets (writes) and its read-only
\* shader resources (reads).
Regions ==
    {g \in [name : AdNames, hasDraw : BOOLEAN,
            writes : SUBSET AdRes, reads : SUBSET AdRes] :
        ~g.hasDraw => (g.writes = {} /\ g.reads = {})}

RegionSeqs == UNION {[1..k -> Regions] : k \in 0..MaxPasses}

\* The frame's actions in the order process_action reaches them.
ActionsOf(regions) ==
    LET RECURSIVE from(_)
        from(k) ==
           IF k > Len(regions) THEN <<>>
           ELSE << [marker |-> TRUE, draw |-> FALSE, name |-> regions[k].name,
                    writes |-> {}, reads |-> {}] >>
                \o (IF regions[k].hasDraw
                    THEN << [marker |-> FALSE, draw |-> TRUE, name |-> "",
                             writes |-> regions[k].writes,
                             reads |-> regions[k].reads] >>
                    ELSE <<>>)
                \o from(k + 1)
    IN from(1)

NoPass == [name |-> "", writes |-> {}, reads |-> {}, drawcalls |-> -1]

NoWriter == ""

AdInit(seqs) ==
    \E g \in seqs :
       ad = [pc |-> "walk", actions |-> ActionsOf(g), pos |-> 1,
             current_pass |-> NoPass, passes |-> <<>>, i |-> 1,
             rt_first_write |-> [r \in AdRes |-> NoWriter],
             rt_last_write |-> [r \in AdRes |-> NoWriter],
             rt_reads |-> [r \in AdRes |-> <<>>],
             dependencies |-> <<>>,
             parallelizable |-> <<>>]

\* Lines 136-137 and 201-202: the pass in hand is kept if it has a draw.
Saved(passes, current) ==
    IF current # NoPass /\ current.drawcalls > 0
    THEN Append(passes, current) ELSE passes

\* process_action, lines 131-194, on one action: a marker starts a new pass,
\* a draw adds its targets and resources to the pass in hand.
AdWalk ==
    /\ ad.pc = "walk"
    /\ ad.pos <= Len(ad.actions)
    /\ LET a == ad.actions[ad.pos]
           started == IF a.marker
                      THEN [name |-> a.name, writes |-> {}, reads |-> {},
                            drawcalls |-> 0]
                      ELSE ad.current_pass
           drawn == IF a.draw /\ started # NoPass
                    THEN [started EXCEPT !.drawcalls = @ + 1,
                                         !.writes = @ \cup a.writes,
                                         !.reads = @ \cup a.reads]
                    ELSE started
       IN ad' = [ad EXCEPT
                    !.pos = @ + 1,
                    !.passes = IF a.marker THEN Saved(@, ad.current_pass)
                               ELSE @,
                    !.current_pass = drawn]
    /\ UNCHANGED << schedVars, pd >>

\* Lines 196-204: the walk is over; the last pass is saved.
AdWalkDone ==
    /\ ad.pc = "walk"
    /\ ad.pos > Len(ad.actions)
    /\ ad' = [ad EXCEPT !.pc = "deps",
                        !.passes = Saved(@, ad.current_pass)]
    /\ UNCHANGED << schedVars, pd >>

\* Lines 215-224: the dependencies a pass's reads add, given the last writers
\* as they stand once the pass's own writes are recorded.
ReadDeps(pass, last_write) ==
    LET RECURSIVE of(_)
        of(rs) ==
           IF rs = {} THEN <<>>
           ELSE LET r == CHOOSE x \in rs : TRUE
                IN (IF last_write[r] # NoWriter /\ last_write[r] # pass.name
                    THEN << [from |-> last_write[r], to |-> pass.name,
                             resource |-> r, type |-> "read_after_write"] >>
                    ELSE <<>>) \o of(rs \ {r})
    IN of(pass.reads)

\* Lines 207-226: one turn of the dependency loop. The pass's writes are
\* recorded first, then its reads are checked against the last writers.
AdDeps ==
    /\ ad.pc = "deps"
    /\ ad.i <= Len(ad.passes)
    /\ LET pass == ad.passes[ad.i]
           first == [r \in AdRes |->
                        IF r \in pass.writes /\ ad.rt_first_write[r] = NoWriter
                        THEN pass.name ELSE ad.rt_first_write[r]]
           last == [r \in AdRes |->
                       IF r \in pass.writes THEN pass.name
                       ELSE ad.rt_last_write[r]]
       IN ad' = [ad EXCEPT
                    !.i = @ + 1,
                    !.rt_first_write = first,
                    !.rt_last_write = last,
                    !.dependencies = @ \o ReadDeps(pass, last),
                    !.rt_reads = [r \in AdRes |->
                                     IF r \in pass.reads
                                     THEN Append(@[r], pass.name) ELSE @[r]]]
    /\ UNCHANGED << schedVars, pd >>

\* Lines 257-272: the two passes have no RAW, WAW or WAR conflict.
NoConflict(pi, pj) ==
    /\ pi.writes \cap pj.reads = {}
    /\ pi.writes \cap pj.writes = {}
    /\ pi.reads \cap pj.writes = {}

\* Lines 251-276: the pairs of passes without conflict, by name, in loop
\* order.
Parallelizable(passes) ==
    LET RECURSIVE pairs(_, _)
        pairs(i, j) ==
           IF i > Len(passes) THEN <<>>
           ELSE IF j > Len(passes) THEN pairs(i + 1, i + 2)
           ELSE (IF NoConflict(passes[i], passes[j])
                 THEN << [pass1 |-> passes[i].name,
                          pass2 |-> passes[j].name] >>
                 ELSE <<>>)
                \o pairs(i, j + 1)
    IN pairs(1, 2)

\* Line 282: the report keeps the first 50 pairs.
ParallelLimit == 50

Take(seq, n) == SubSeq(seq, 1, IF Len(seq) < n THEN Len(seq) ELSE n)

\* Lines 250-285: after the dependency loop, the parallelizable pairs, and
\* the results are returned.
AdParallel ==
    /\ ad.pc = "deps"
    /\ ad.i > Len(ad.passes)
    /\ ad' = [ad EXCEPT
                 !.pc = "done",
                 !.parallelizable = Take(Parallelizable(ad.passes),
                                         ParallelLimit)]
    /\ UNCHANGED << schedVars, pd >>

AndroidInit == AdInit(RegionSeqs) /\ SchedIdle /\ pd = Idle

AndroidNext == AdWalk \/ AdWalkDone \/ AdDeps \/ AdParallel

SpecAndroid == AndroidInit /\ [][AndroidNext]_vars

\* The passes before pass i that write r.
EarlierWriters(passes, i, r) == {j \in 1..(i - 1) : r \in passes[j].writes}

Latest(s) == CHOOSE j \in s : \A k \in s : k <= j

\* C10. For every pass P and every resource R that P reads: if a pass
\* before P wrote R, a read_after_write dependency from the most recent such
\* pass to P is recorded.
C10_RawRecorded ==
    ad.pc = "done" =>
       \A i \in 1..Len(ad.passes) : \A r \in ad.passes[i].reads :
          EarlierWriters(ad.passes, i, r) # {} =>
             \E k \in 1..Len(ad.dependencies) :
                ad.dependencies[k] =
                   [from |-> ad.passes[
                                Latest(EarlierWriters(ad.passes, i, r))].name,
                    to |-> ad.passes[i].name,
                    resource |-> r,
                    type |-> "read_after_write"]

\* A RAW, WAW or WAR hazard from pass i to the later pass j.
Hazard(passes, i, j) ==
    /\ i < j
    /\ \/ passes[i].writes \cap passes[j].reads # {}
       \/ passes[i].writes \cap passes[j].writes # {}
       \/ passes[i].reads \cap passes[j].writes # {}

\* Pass i is ordered before pass j: a hazard between the two, or a chain of
\* hazards through the passes between them.
RECURSIVE Ordered(_, _, _)
Ordered(passes, i, j) ==
    \/ Hazard(passes, i, j)
    \/ \E m \in (i + 1)..(j - 1) :
          Hazard(passes, i, m) /\ Ordered(passes, m, j)

\* The pairs of passes a reported pair of names may stand for.
PairsNamed(passes, e) ==
    {ij \in (1..Len(passes)) \X (1..Len(passes)) :
        /\ ij[1] < ij[2]
        /\ passes[ij[1]].name = e.pass1
        /\ passes[ij[2]].name = e.pass2}

\* C11. Every pair reported as parallelizable has no dependency between its
\* passes: the pair names two passes neither of which is ordered before the
\* other, by a hazard or by a chain of hazards through intermediate passes.
C11_ParallelIndependent ==
    ad.pc = "done" =>
       \A k \in 1..Len(ad.parallelizable) :
          \E ij \in PairsNamed(ad.passes, ad.parallelizable[k]) :
             ~Ordered(ad.passes, ij[1], ij[2])
====
